---- MODULE Spec2Model ----
(***************************************************************************)
(* Model of appinsights/dockercollector.py (class DockerCollector): the    *)
(* container-state cache (_containers_state), its refresh                  *)
(* (_update_containers_state = remove_old_containers + one                 *)
(* _update_container_state per listed container), the stats cycle          *)
(* (collect_stats_and_send) and the event loop (collect_container_events). *)
(*                                                                         *)
(* Python values are represented as follows:                               *)
(*   str            a tuple of one-character strings                       *)
(*   None / value   None == << >>, Some(v) == <<v>>                        *)
(*   dict           a function whose DOMAIN is the set of keys             *)
(*   time.time()    the integer variable now (seconds)                     *)
(***************************************************************************)
EXTENDS Integers, Sequences, FiniteSets, TLC

\* ------------------------------------------------------------------ bounds

\* The clock stops advancing by Tick at MaxTime.
MaxTime == 65

\* ------------------------------------------------------- program constants

\* remove_old_containers: unregistered < time.time() - 60
EvictAfter == 60
\* _update_container_state: registered > time.time() - 60
GiveUpAfter == 60
\* _update_container_state: for i in range(5)
MaxAttempts == 5
\* _update_container_state: time.sleep(1)
SleepSecs == 1

\* ------------------------------------------------------------ value model

None == << >>
Some(v) == <<v>>
IsNone(o) == o = None
Get(o) == o[1]

\* Container identifiers known to the runtime; a descriptor is the dict the
\* runtime returns for a container, of which the collector reads 'Id'.
Ids == {"c1", "c2"}
Descriptor(id) == [Id |-> id]

\* How far the environment lets the clock advance between two operations.
TickSteps == {30}

\* DockerWrapperError raised by run_command.
Err == <<"DockerWrapperError">>

\* Characters str.strip() removes.
Whitespace == {" ", "\n"}

\* ------------------------------------------------------------- key parsing

RECURSIVE LStrip(_)
LStrip(s) == IF s # << >> /\ Head(s) \in Whitespace THEN LStrip(Tail(s)) ELSE s

RECURSIVE RStrip(_)
RStrip(s) ==
    IF s # << >> /\ s[Len(s)] \in Whitespace THEN RStrip(SubSeq(s, 1, Len(s) - 1)) ELSE s

\* str.strip()
Strip(s) == RStrip(LStrip(s))

\* str.split('='): the pieces between the separators, in order.
RECURSIVE SplitAcc(_, _, _)
SplitAcc(s, cur, acc) ==
    IF s = << >> THEN Append(acc, cur)
    ELSE IF Head(s) = "=" THEN SplitAcc(Tail(s), << >>, Append(acc, cur))
    ELSE SplitAcc(Tail(s), Append(cur, Head(s)), acc)

Split(s) == SplitAcc(s, << >>, << >>)

\* _get_container_sdk_info: the stripped output of the cat command, None when
\* it is empty or when run_command raised DockerWrapperError.
get_container_sdk_info(out) ==
    IF out = Err THEN None
    ELSE LET result == Strip(out)
         IN IF result # << >> THEN Some(result) ELSE None

\* _get_container_sdk_ikey: None, or the second piece of the content split at '='.
get_container_sdk_ikey(out) ==
    LET sdk_info_file_content == get_container_sdk_info(out)
    IN IF IsNone(sdk_info_file_content) THEN None
       ELSE LET splits == Split(Get(sdk_info_file_content))
            IN IF Len(splits) < 2 THEN None ELSE Some(splits[2])

\* ------------------------------------------------------------------ state

VARIABLES
    now,               \* time.time()
    containers_state,  \* self._containers_state: Id -> entry
    listing,           \* ghost: Some(ids listed) when the last step was a refresh
    calls,             \* ghost: per id, the key-discovery attempts that refresh
                       \*        made, in order: [out: run_command's answer,
                       \*        ikey: what _get_container_sdk_ikey returned]
    removed,           \* ghost: the ids whose entry that refresh deleted
    after_eviction,    \* ghost: Some(the cache as remove_old_containers returned
                       \*        it in that refresh)
    absent_since,      \* ghost: per cached id, Some(clock of the first refresh
                       \*        of its current run of listings without it)
    my_container_id,   \* self._my_container_id
    stats_asked,       \* ghost: Some(ids get_stats was called for) when the
                       \*        last step was a stats cycle
    stats_got,         \* ghost: per id, what get_stats returned in that cycle
    raised,            \* ghost: whether that cycle ended by an exception
    metrics_sent,      \* ghost: what that cycle passed to send_event, in order
    stream,            \* ghost: the events the event loop has taken from
                       \*        get_events(), in order
    events_sent,       \* ghost: what the event loop passed to send_event, in order
    inspections,       \* ghost: the events get_inspection was called for, in order
    inspected,         \* ghost: what get_inspection returned for them, in order
    lookups,           \* ghost: the ids the event loop asked the cache for, in order
    returned,          \* ghost: what _get_container_sdk_ikey_from_containers_state
                       \*        returned for each of them, in order
    run_output,        \* ghost: Some(what run_command answered) in the last
                       \*        call of _get_container_sdk_ikey made on its own
    ikey_found,        \* ghost: what that call returned
    pc,                \* per thread, where it stands in its operation
    started,           \* per thread, the operations it has started
    containers,        \* per thread, the local 'containers' of its refresh
    event_container_id, \* the container_id of the event thread's key lookup
    items,             \* the iterator of the stats thread's selection pass
    worker             \* per thread and id, where the pool worker of the
                       \* thread's refresh stands in _update_container_state

cache_vars == <<now, containers_state, listing, calls, removed, after_eviction, absent_since>>
stats_vars == <<my_container_id, stats_asked, stats_got, raised, metrics_sent>>
event_vars == <<stream, events_sent, inspections, inspected, lookups, returned>>
parse_vars == <<run_output, ikey_found>>
thread_vars == <<pc, started, containers, event_container_id, items, worker>>
vars == <<cache_vars, stats_vars, event_vars, parse_vars, thread_vars>>

NoCalls == [id \in Ids |-> << >>]

\* The two threads that share the collector: the one that runs
\* collect_stats_and_send again and again and the one that runs
\* collect_container_events; and the containers the runtime has while the
\* threads are followed step by step (events may name other containers).
Threads == {"stats", "events"}
ThreadIds == {"c1"}

\* A pool worker that has nothing to do.
NoWorker == [at |-> "none", i |-> 0, wake |-> 0]

\* ------------------------------------------------------------------ refresh

\* IsOld with the comparison turned into "at least EvictAfter seconds ago".
IsOld_inclusive(entry, t) == Get(entry.unregistered) <= t - EvictAfter

\* remove_old_containers that sets no mark: a key missing from the listing is
\* deleted when its mark is old and left as it is otherwise.
remove_old_containers_no_mark(current_containers, new_ids, t) ==
    LET keys    == DOMAIN current_containers
        deleted == {key \in keys \ new_ids :
                        /\ ~IsNone(current_containers[key].unregistered)
                        /\ Get(current_containers[key].unregistered) < t - EvictAfter}
    IN [key \in keys \ deleted |-> current_containers[key]]

\* remove_old_containers whose loop runs over every key of the cache, listed
\* or not.
remove_old_containers_every_key(current_containers, new_ids, t) ==
    LET keys    == DOMAIN current_containers
        deleted == {key \in keys :
                        /\ ~IsNone(current_containers[key].unregistered)
                        /\ Get(current_containers[key].unregistered) < t - EvictAfter}
    IN [key \in keys \ deleted |->
            IF IsNone(current_containers[key].unregistered)
            THEN [current_containers[key] EXCEPT !.unregistered = Some(t)]
            ELSE current_containers[key]]

\* The test of remove_old_containers on a key that is missing from the new
\* listing and already marked: TRUE when the entry is deleted.
IsOld(entry, t) == Get(entry.unregistered) < t - EvictAfter

\* remove_old_containers(current_containers, new_containers) at clock t;
\* new_ids are the 'Id's of new_containers.
remove_old_containers(current_containers, new_ids, t) ==
    LET keys    == DOMAIN current_containers
        missing == {key \in keys : key \notin new_ids}
        deleted == {key \in missing :
                        /\ ~IsNone(current_containers[key].unregistered)
                        /\ IsOld(current_containers[key], t)}
    IN [key \in keys \ deleted |->
            IF key \in missing /\ IsNone(current_containers[key].unregistered)
            THEN [current_containers[key] EXCEPT !.unregistered = Some(t)]
            ELSE current_containers[key]]

\* One key-discovery attempt: run_command answered out.
Attempt(out) == [out |-> out, ikey |-> get_container_sdk_ikey(out)]

\* Tries without the early return: the loop runs all of range(5).
RECURSIVE Tries_no_return(_, _)
Tries_no_return(outs, i) ==
    IF i = MaxAttempts THEN <<Attempt(outs[i])>>
    ELSE <<Attempt(outs[i])>> \o Tries_no_return(outs, i + 1)

\* The attempts the retry loop makes, given what run_command answers on each
\* of range(5): the loop returns after the first attempt whose key is not None.
RECURSIVE Tries(_, _)
Tries(outs, i) ==
    LET a == Attempt(outs[i])
    IN IF i = MaxAttempts \/ ~IsNone(a.ikey) THEN <<a>>
       ELSE <<a>> \o Tries(outs, i + 1)

\* _update_container_state(container), the branch for an id with no entry,
\* started at clock t: the entry is stored anew after every attempt, with the
\* clock of that attempt, and the loop sleeps after every failed attempt.
update_new(id, outs, t) ==
    LET tries == Tries(outs, 1)
        n     == Len(tries)
        ikey  == tries[n].ikey
    IN [entry |-> [ikey |-> ikey,
                   registered |-> t + (n - 1) * SleepSecs,
                   unregistered |-> None,
                   container |-> Descriptor(id)],
        calls |-> tries,
        slept |-> IF IsNone(ikey) THEN n * SleepSecs ELSE (n - 1) * SleepSecs]

\* update_existing without the "already has a key" return.
update_existing_requery(status, outs, t) ==
    IF status.registered > t - GiveUpAfter
    THEN [entry |-> [status EXCEPT !.ikey = Attempt(outs[1]).ikey],
          calls |-> <<Attempt(outs[1])>>, slept |-> 0]
    ELSE [entry |-> status, calls |-> << >>, slept |-> 0]

\* update_existing without the give-up window.
update_existing_no_window(status, outs, t) ==
    IF ~IsNone(status.ikey) THEN [entry |-> status, calls |-> << >>, slept |-> 0]
    ELSE [entry |-> [status EXCEPT !.ikey = Attempt(outs[1]).ikey],
          calls |-> <<Attempt(outs[1])>>, slept |-> 0]

\* _update_container_state(container), the branch for an id that has an entry.
update_existing(status, outs, t) ==
    IF ~IsNone(status.ikey) THEN [entry |-> status, calls |-> << >>, slept |-> 0]
    ELSE IF status.registered > t - GiveUpAfter
         THEN LET a == Attempt(outs[1])
              IN [entry |-> [status EXCEPT !.ikey = a.ikey], calls |-> <<a>>, slept |-> 0]
         ELSE [entry |-> status, calls |-> << >>, slept |-> 0]

\* _update_container_state(container)
update_container_state(state, id, outs, t) ==
    IF id \notin DOMAIN state THEN update_new(id, outs, t)
    ELSE update_existing(state[id], outs, t)

Max(S) == CHOOSE x \in S : \A y \in S : y <= x

\* update_containers_state in which a DockerWrapperError met by one worker
\* discards what the other workers of the pass resolved.
update_containers_state_abort(state, new_ids, outs, t) ==
    LET evicted == remove_old_containers(state, new_ids, t)
        res     == [id \in new_ids |-> update_container_state(evicted, id, outs[id], t)]
        failed  == \E id \in new_ids : \E i \in 1..Len(res[id].calls) :
                       res[id].calls[i].out = Err
    IN [evicted |-> evicted,
        state |-> IF failed THEN evicted
                  ELSE [id \in (DOMAIN evicted) \cup new_ids |->
                           IF id \in new_ids THEN res[id].entry ELSE evicted[id]],
        calls |-> [id \in Ids |-> IF id \in new_ids THEN res[id].calls ELSE << >>],
        slept |-> Max({0} \cup {res[id].slept : id \in new_ids})]

\* update_containers_state that only evicts: no worker stores anything.
update_containers_state_evict_only(state, new_ids, outs, t) ==
    [evicted |-> remove_old_containers(state, new_ids, t),
     state |-> remove_old_containers(state, new_ids, t),
     calls |-> [id \in Ids |-> << >>],
     slept |-> 0]

\* _update_containers_state(containers) started at clock t, where outs[id] is
\* what run_command answers for id on successive calls: [evicted, state, calls,
\* slept], evicted being the cache between line 173 and the workers.
\* The pool has a worker per container and each worker writes its own key, so
\* the pass lasts as long as its slowest worker.
update_containers_state(state, new_ids, outs, t) ==
    LET evicted == remove_old_containers(state, new_ids, t)
        res     == [id \in new_ids |-> update_container_state(evicted, id, outs[id], t)]
    IN [evicted |-> evicted,
        state |-> [id \in (DOMAIN evicted) \cup new_ids |->
                        IF id \in new_ids THEN res[id].entry ELSE evicted[id]],
        calls |-> [id \in Ids |-> IF id \in new_ids THEN res[id].calls ELSE << >>],
        slept |-> Max({0} \cup {res[id].slept : id \in new_ids})]

\* ------------------------------------------------------------------ inputs

\* What the cat command prints: nothing when the sdk file does not exist,
\* else the file, here one name=value line.
Contents == { << >>, <<"k", "=", "x">> }
Outcomes == Contents \cup {Err}
Failures == {o \in Outcomes : IsNone(get_container_sdk_ikey(o))}
Successes == Outcomes \ Failures

\* run_command's answers on MaxAttempts successive calls: n failures of one
\* kind, then the file with a key.
Answers(n, f, s) == [i \in 1..MaxAttempts |-> IF i <= n THEN f ELSE s]
AnswerSeqs ==
    {Answers(0, Err, s) : s \in Successes}
    \cup {Answers(1, Err, s) : s \in Successes}
    \cup {Answers(MaxAttempts - 1, << >>, s) : s \in Successes}
    \cup {Answers(MaxAttempts, f, f) : f \in Failures}

\* The answers of a container whose file is there from the start, and of one
\* that cannot be reached.
PromptAnswerSeqs ==
    {Answers(0, Err, s) : s \in Successes} \cup {Answers(MaxAttempts, Err, Err)}

\* ----------------------------------------------------------------- actions

Init ==
    /\ now = 0
    /\ containers_state = << >>
    /\ listing = None
    /\ calls = NoCalls
    /\ removed = {}
    /\ after_eviction = None
    /\ absent_since = [id \in Ids |-> None]
    /\ my_container_id = None
    /\ stats_asked = None
    /\ stats_got = << >>
    /\ raised = FALSE
    /\ metrics_sent = << >>
    /\ stream = << >>
    /\ events_sent = << >>
    /\ inspections = << >>
    /\ inspected = << >>
    /\ lookups = << >>
    /\ returned = << >>
    /\ run_output = None
    /\ ikey_found = None
    /\ pc = [t \in Threads |-> "idle"]
    /\ started = [t \in Threads |-> 0]
    /\ containers = [t \in Threads |-> None]
    /\ event_container_id = None
    /\ items = None
    /\ worker = [t \in Threads |-> [id \in ThreadIds |-> NoWorker]]

\* The ghosts of a step that is not a refresh.
NoRefresh ==
    /\ listing' = None
    /\ calls' = NoCalls
    /\ removed' = {}
    /\ after_eviction' = None
    /\ UNCHANGED absent_since

\* The ghosts of a step that is not a stats cycle.
NoStats ==
    /\ stats_asked' = None
    /\ stats_got' = << >>
    /\ raised' = FALSE
    /\ metrics_sent' = << >>

\* Time passes between two operations.
Tick ==
    /\ \E d \in TickSteps : now + d <= MaxTime /\ now' = now + d
    /\ UNCHANGED <<containers_state, my_container_id, event_vars, parse_vars, thread_vars>>
    /\ NoRefresh
    /\ NoStats

\* containers = self._docker_wrapper.get_containers()
\* self._update_containers_state(containers=containers)
RefreshWith(new_ids, outs) ==
    \E r \in {update_containers_state(containers_state, new_ids, outs, now)} :
       /\ containers_state' = r.state
       /\ now' = now + r.slept
       /\ listing' = Some(new_ids)
       /\ calls' = r.calls
       /\ removed' = DOMAIN containers_state \ DOMAIN r.state
       /\ after_eviction' = Some(r.evicted)
       /\ absent_since' = [id \in Ids |->
              IF id \in new_ids \/ id \notin DOMAIN r.state THEN None
              ELSE IF IsNone(absent_since[id]) THEN Some(now)
              ELSE absent_since[id]]

Refresh ==
    /\ now <= MaxTime
    /\ \E new_ids \in SUBSET Ids : \E outs \in [new_ids -> AnswerSeqs] :
          RefreshWith(new_ids, outs)
    /\ UNCHANGED <<my_container_id, event_vars, parse_vars, thread_vars>>
    /\ NoStats

Next == Tick \/ Refresh

\* The cache under refreshes against arbitrary listings, with time passing.
Spec == Init /\ [][Next]_vars

\* -------------------------------------------------------------- stats cycle

\* self._docker_wrapper.get_host_name()
HostName == "host"

\* What get_stats returns: a list of 0 to sampleCount + 1 samples of the
\* container.
MaxSamples == 3
Samples(n) == [i \in 1..n |-> [sample |-> i]]
\* A call of get_stats: it returns a list of samples, or raises.
Returned(stats) == [raises |-> FALSE, stats |-> stats]
Raise == [raises |-> TRUE, stats |-> << >>]
StatsResults == {Returned(Samples(n)) : n \in 0..MaxSamples}

\* dockerconvertors.convert_to_metrics(stats): a sequence of metrics computed
\* from the samples.
convert_to_metrics(stats) ==
    <<[name |-> "cpu", samples |-> stats], [name |-> "memory", samples |-> stats]>>

\* dockerconvertors.get_container_properties(container, host_name)
get_container_properties(container, host_name) ==
    [container |-> container.Id, host |-> host_name]

\* containers_without_sdk without the collector's own container.
containers_without_sdk_no_own(state, me) ==
    {k \in DOMAIN state : IsNone(state[k].ikey)}

\* The comprehension that selects the containers the collector reports for.
containers_without_sdk(state, me) ==
    {k \in DOMAIN state : Some(k) = me \/ IsNone(state[k].ikey)}

\* A dict is iterated in insertion order, which the racing workers of the
\* refreshes set: any order of the selected keys.
Orders(S) == {o \in [1..Cardinality(S) -> S] : \A k \in S : \E i \in DOMAIN o : o[i] = k}

\* Enough with the filter len(stats) >= 1.
Enough_one(stats) == Len(stats) >= 1

\* The filter of the emission loop.
Enough(stats) == Len(stats) > 1

\* The emission loop over one (container, stats) pair.
Emissions(container, stats, host_name) ==
    IF Enough(stats)
    THEN LET metrics    == convert_to_metrics(stats)
             properties == get_container_properties(container, host_name)
         IN [i \in 1..Len(metrics) |-> [metric |-> metrics[i], properties |-> properties]]
    ELSE << >>

\* The emission loop over container_stats.
RECURSIVE EmitAll(_, _, _, _)
EmitAll(order, state, got, host_name) ==
    IF order = << >> THEN << >>
    ELSE Emissions(state[Head(order)].container, got[Head(order)].stats, host_name)
         \o EmitAll(Tail(order), state, got, host_name)

\* collect_stats_and_send(), get_stats answering from results.
collect_stats_and_send(results) ==
    /\ now <= MaxTime
    /\ IF IsNone(my_container_id)
       THEN \E me \in Ids : my_container_id' = Some(me)
       ELSE UNCHANGED my_container_id
    /\ \E new_ids \in SUBSET Ids : \E outs \in [new_ids -> PromptAnswerSeqs] :
          RefreshWith(new_ids, outs)
    /\ LET selected == containers_without_sdk(containers_state', my_container_id')
       IN \E order \in Orders(selected) : \E got \in [selected -> results] :
             /\ stats_asked' = Some(selected)
             /\ stats_got' = got
             /\ raised' = (\E id \in selected : got[id].raises)
             /\ metrics_sent' = IF \E id \in selected : got[id].raises THEN << >>
                                ELSE EmitAll(order, containers_state', got, HostName)
    /\ UNCHANGED <<event_vars, parse_vars, thread_vars>>

\* The stats cycle with a collaborator that keeps its contract.
CollectStats == collect_stats_and_send(StatsResults)

NextStats == CollectStats

\* Stats cycles one after the other.
SpecStats == Init /\ [][NextStats]_vars

\* The stats cycle with a get_stats that may raise for any container.
CollectStatsFaulty == collect_stats_and_send(StatsResults \cup {Raise})

NextFaulty == CollectStatsFaulty

\* Stats cycles one after the other, get_stats failing at will.
SpecFaulty == Init /\ [][NextFaulty]_vars

\* --------------------------------------------------------------- event loop

\* The bound on the events taken from the stream.
MaxEvents == 2

\* The statuses the loop handles, and others the runtime reports.
Handled == {"start", "stop", "die", "restart", "pause", "unpause"}
Statuses == Handled \cup {"create", "exec_die"}
\* Terminal with stop only.
Terminal_stop == {"stop"}
\* The statuses of the test 'status in ['stop', 'die']'.
Terminal == {"stop", "die"}
Events == [status : Statuses, id : Ids]

\* self._docker_wrapper.get_inspection(event): times are in seconds.
Inspections(event) ==
    {[Id |-> event.id, Created |-> 0, RestartCount |-> 1,
      State |-> [StartedAt |-> 10, FinishedAt |-> 135, ExitCode |-> 137, Error |-> error]] :
        error \in {None, Some("oom")}}

\* dockerconvertors.get_container_properties_from_inspect(inspect, host_name)
get_container_properties_from_inspect(inspect, host_name) ==
    ("Docker container id" :> inspect.Id) @@ ("Docker host" :> host_name)

\* 'docker-container-{0}'.format(status)
EventName(status) == "docker-container-" \o status

\* The properties the loop adds for every handled status.
CommonProperties(status, inspect) ==
    ("docker-status" :> status)
    @@ ("docker-Created" :> inspect.Created)
    @@ ("docker-StartedAt" :> inspect.State.StartedAt)
    @@ ("docker-RestartCount" :> inspect.RestartCount)

\* The properties the loop adds for stop and die; a quotient n / d is <<n, d>>.
TerminalProperties(inspect) ==
    LET error == inspect.State.Error
        duration_seconds == inspect.State.FinishedAt - inspect.State.StartedAt
    IN ("docker-FinishedAt" :> inspect.State.FinishedAt)
       @@ ("docker-ExitCode" :> inspect.State.ExitCode)
       @@ ("docker-Error" :> IF ~IsNone(error) THEN Get(error) ELSE "")
       @@ ("docker-duration-seconds" :> duration_seconds)
       @@ ("docker-duration-minutes" :> <<duration_seconds, 60>>)
       @@ ("docker-duration-hours" :> <<duration_seconds, 3600>>)
       @@ ("docker-duration-days" :> <<duration_seconds, 86400>>)

\* The record the loop sends for a handled event; its 'ikey' is a Python value
\* like the cached one, Some(string), '' being the string << >>.
event_data(status, inspect, ikey_to_send_event, host_name) ==
    [name |-> EventName(status),
     ikey |-> IF ~IsNone(ikey_to_send_event) THEN ikey_to_send_event ELSE Some(<< >>),
     properties |->
        IF status \in Terminal
        THEN get_container_properties_from_inspect(inspect, host_name)
             @@ CommonProperties(status, inspect) @@ TerminalProperties(inspect)
        ELSE get_container_properties_from_inspect(inspect, host_name)
             @@ CommonProperties(status, inspect)]

\* The second half of _get_container_sdk_ikey_from_containers_state.
cached_ikey(state, container_id) ==
    IF container_id \in DOMAIN state THEN state[container_id].ikey ELSE None

\* ResolveKey that refreshes the cache whether or not it has the entry.
ResolveKey_always(container_id) ==
    \E new_ids \in SUBSET Ids : \E outs \in [new_ids -> PromptAnswerSeqs] :
       RefreshWith(new_ids, outs)

\* _get_container_sdk_ikey_from_containers_state(container_id): the cache is
\* refreshed against a new listing when it has no entry for container_id.
ResolveKey(container_id) ==
    IF container_id \notin DOMAIN containers_state
    THEN \E new_ids \in SUBSET Ids : \E outs \in [new_ids -> PromptAnswerSeqs] :
            RefreshWith(new_ids, outs)
    ELSE UNCHANGED <<now, containers_state>> /\ NoRefresh

\* IsHandled with create added to the list.
IsHandled_create(status) == status \in Handled \cup {"create"}

\* The test at the top of the loop body.
IsHandled(status) == status \in Handled

\* One iteration of the loop of collect_container_events().
collect_container_event(event) ==
    /\ stream' = Append(stream, event)
    /\ IF ~IsHandled(event.status)
       THEN /\ UNCHANGED <<now, containers_state, events_sent, inspections, inspected,
                           lookups, returned>>
            /\ NoRefresh
       ELSE \E inspect \in Inspections(event) :
            /\ inspections' = Append(inspections, event)
            /\ inspected' = Append(inspected, inspect)
            /\ lookups' = Append(lookups, inspect.Id)
            /\ ResolveKey(inspect.Id)
            /\ returned' = Append(returned, cached_ikey(containers_state', inspect.Id))
            /\ events_sent' = Append(events_sent,
                   event_data(event.status, inspect,
                              cached_ikey(containers_state', inspect.Id), HostName))
    /\ UNCHANGED <<my_container_id, parse_vars, thread_vars>>
    /\ NoStats

CollectEvent ==
    /\ Len(stream) < MaxEvents
    /\ \E event \in Events : collect_container_event(event)

NextEvents == CollectEvent

\* The event loop alone, on a stream of at most MaxEvents events.
SpecEvents == Init /\ [][NextEvents]_vars

\* ------------------------------------------------------------ key discovery

\* The longest output of the cat command considered, in characters.
MaxLen == 5

\* The characters of the outputs considered: a name, the separator, a value
\* and a blank.
Alphabet == {"k", "=", "x", " "}
Strings(n) == UNION {[1..l -> Alphabet] : l \in 0..n}

\* What run_command answers: any output of at most MaxLen characters, or
\* DockerWrapperError.
RunOutputs == Strings(MaxLen) \cup {Err}

\* One call of _get_container_sdk_ikey(container), run_command answering out.
GetSdkIkey ==
    /\ \E out \in RunOutputs :
          /\ run_output' = Some(out)
          /\ ikey_found' = get_container_sdk_ikey(out)
    /\ UNCHANGED <<cache_vars, stats_vars, event_vars, thread_vars>>

NextParse == GetSdkIkey

\* Key discovery alone, on every output.
SpecParse == Init /\ [][NextParse]_vars

\* ------------------------------------------------- the two threads, by steps

\* The cycles the stats thread starts.
MaxCycles == 2

\* What the step-by-step actions leave alone: the records of the operations
\* taken as a whole.
whole_vars ==
    <<listing, calls, removed, after_eviction, absent_since, stats_asked, stats_got,
      raised, metrics_sent, event_vars, parse_vars>>

Working(w) == w.at \in {"check", "try", "sleep", "read"}
Ended(w) == w.at \in {"done", "KeyError"}

\* collect_stats_and_send up to its refresh: the thread learns its own
\* container id if it has not yet and lists the containers.
StartStats ==
    /\ pc["stats"] = "idle"
    /\ started["stats"] < MaxCycles
    /\ IF IsNone(my_container_id)
       THEN \E me \in ThreadIds : my_container_id' = Some(me)
       ELSE UNCHANGED my_container_id
    /\ \E new_ids \in SUBSET ThreadIds :
          containers' = [containers EXCEPT !["stats"] = Some(new_ids)]
    /\ pc' = [pc EXCEPT !["stats"] = "evict"]
    /\ started' = [started EXCEPT !["stats"] = @ + 1]
    /\ UNCHANGED <<now, containers_state, event_container_id, items, worker, whole_vars>>

\* The event loop reaches the key lookup for a handled event:
\* _get_container_sdk_ikey_from_containers_state tests 'container_id not in'
\* and, on a miss, lists the containers.
EventArrives ==
    /\ pc["events"] = "idle"
    /\ started["events"] < MaxEvents
    /\ \E id \in Ids :
          /\ event_container_id' = Some(id)
          /\ IF id \notin DOMAIN containers_state
             THEN /\ \E new_ids \in SUBSET ThreadIds :
                        containers' = [containers EXCEPT !["events"] = Some(new_ids)]
                  /\ pc' = [pc EXCEPT !["events"] = "evict"]
             ELSE /\ pc' = [pc EXCEPT !["events"] = "recheck"]
                  /\ UNCHANGED containers
    /\ started' = [started EXCEPT !["events"] = @ + 1]
    /\ UNCHANGED <<now, containers_state, my_container_id, items, worker, whole_vars>>

\* The first statement of _update_containers_state, and the hand-over of the
\* listed containers to the pool.
Evict(t) ==
    /\ pc[t] = "evict"
    /\ containers_state' = remove_old_containers(containers_state, Get(containers[t]), now)
    /\ worker' = [worker EXCEPT ![t] =
                     [id \in ThreadIds |->
                         IF id \in Get(containers[t])
                         THEN [at |-> "check", i |-> 0, wake |-> 0]
                         ELSE NoWorker]]
    /\ pc' = [pc EXCEPT ![t] = "workers"]
    /\ UNCHANGED <<now, my_container_id, started, containers, event_container_id, items,
                   whole_vars>>

\* A worker tests 'id not in self._containers_state'.
WorkerCheck(t, id) ==
    /\ worker[t][id].at = "check"
    /\ worker' = [worker EXCEPT ![t][id] =
                     IF id \notin DOMAIN containers_state
                     THEN [at |-> "try", i |-> 1, wake |-> 0]
                     ELSE [at |-> "read", i |-> 0, wake |-> 0]]
    /\ UNCHANGED <<now, containers_state, my_container_id, pc, started, containers,
                   event_container_id, items, whole_vars>>

\* One turn of the loop of a worker that found no entry: a discovery attempt,
\* the store of a new entry with the clock of the attempt, and either the
\* return with the key or the start of the sleep.
WorkerTry(t, id) ==
    /\ worker[t][id].at = "try"
    /\ \E out \in Outcomes :
          LET ikey == Attempt(out).ikey
          IN /\ containers_state' =
                    (id :> [ikey |-> ikey, registered |-> now, unregistered |-> None,
                            container |-> Descriptor(id)]) @@ containers_state
             /\ worker' = [worker EXCEPT ![t][id] =
                              IF ~IsNone(ikey) THEN [at |-> "done", i |-> 0, wake |-> 0]
                              ELSE [at |-> "sleep", i |-> @.i, wake |-> now + SleepSecs]]
    /\ UNCHANGED <<now, my_container_id, pc, started, containers, event_container_id,
                   items, whole_vars>>

\* The sleep of a worker is over: the next turn of range(5), or the return
\* of None after the last.
WorkerWake(t, id) ==
    /\ worker[t][id].at = "sleep"
    /\ now >= worker[t][id].wake
    /\ worker' = [worker EXCEPT ![t][id] =
                     IF @.i < MaxAttempts THEN [at |-> "try", i |-> @.i + 1, wake |-> 0]
                     ELSE [at |-> "done", i |-> 0, wake |-> 0]]
    /\ UNCHANGED <<now, containers_state, my_container_id, pc, started, containers,
                   event_container_id, items, whole_vars>>

\* A worker that found an entry reads it, self._containers_state[id], which
\* raises KeyError when the entry has been deleted since the test, and goes
\* through the rest of _update_container_state.
WorkerRead(t, id) ==
    /\ worker[t][id].at = "read"
    /\ IF id \notin DOMAIN containers_state
       THEN /\ worker' = [worker EXCEPT ![t][id] = [at |-> "KeyError", i |-> 0, wake |-> 0]]
            /\ UNCHANGED containers_state
       ELSE /\ \E out \in Outcomes :
                  containers_state' =
                      [containers_state EXCEPT
                          ![id] = update_existing(containers_state[id], <<out>>, now).entry]
            /\ worker' = [worker EXCEPT ![t][id] = [at |-> "done", i |-> 0, wake |-> 0]]
    /\ UNCHANGED <<now, my_container_id, pc, started, containers, event_container_id,
                   items, whole_vars>>

\* The pool is left when every worker has ended; executor.map raises again
\* what a worker raised. The stats thread goes on to the comprehension over
\* self._containers_state.items(), the event thread to the second test of the
\* key lookup.
Join(t) ==
    /\ pc[t] = "workers"
    /\ \A id \in Get(containers[t]) : Ended(worker[t][id])
    /\ worker' = [worker EXCEPT ![t] = [id \in ThreadIds |-> NoWorker]]
    /\ containers' = [containers EXCEPT ![t] = None]
    /\ IF \E id \in Get(containers[t]) : worker[t][id].at = "KeyError"
       THEN pc' = [pc EXCEPT ![t] = "KeyError"] /\ UNCHANGED items
       ELSE IF t = "stats"
       THEN /\ pc' = [pc EXCEPT ![t] = "select"]
            /\ items' = Some([used |-> Cardinality(DOMAIN containers_state),
                              todo |-> DOMAIN containers_state])
       ELSE pc' = [pc EXCEPT ![t] = "recheck"] /\ UNCHANGED items
    /\ UNCHANGED <<now, containers_state, my_container_id, started, event_container_id,
                   whole_vars>>

\* One step of the dict iterator under the comprehension: it raises
\* RuntimeError when the dict has changed size since the iterator was made,
\* else it yields the next item or ends, and the cycle goes on without
\* touching the cache any more.
SelectNext ==
    /\ pc["stats"] = "select"
    /\ IF Cardinality(DOMAIN containers_state) # Get(items).used
       THEN pc' = [pc EXCEPT !["stats"] = "RuntimeError"] /\ items' = None
       ELSE IF Get(items).todo = {}
       THEN pc' = [pc EXCEPT !["stats"] = "idle"] /\ items' = None
       ELSE /\ \E k \in Get(items).todo :
                  items' = Some([Get(items) EXCEPT !.todo = @ \ {k}])
            /\ UNCHANGED pc
    /\ UNCHANGED <<now, containers_state, my_container_id, started, containers,
                   event_container_id, worker, whole_vars>>

\* The second test of the key lookup, 'container_id in': on a miss the
\* lookup returns None.
Recheck ==
    /\ pc["events"] = "recheck"
    /\ IF Get(event_container_id) \in DOMAIN containers_state
       THEN pc' = [pc EXCEPT !["events"] = "fetch"] /\ UNCHANGED event_container_id
       ELSE pc' = [pc EXCEPT !["events"] = "idle"] /\ event_container_id' = None
    /\ UNCHANGED <<now, containers_state, my_container_id, started, containers, items,
                   worker, whole_vars>>

\* The read self._containers_state[container_id]['ikey'] of the key lookup,
\* which raises KeyError when the entry has been deleted since the test.
Fetch ==
    /\ pc["events"] = "fetch"
    /\ pc' = [pc EXCEPT !["events"] =
                 IF Get(event_container_id) \in DOMAIN containers_state
                 THEN "idle" ELSE "KeyError"]
    /\ event_container_id' = None
    /\ UNCHANGED <<now, containers_state, my_container_id, started, containers, items,
                   worker, whole_vars>>

\* Time passes: a second while a worker sleeps, or more than the eviction
\* delay while no worker is at work.
Elapse ==
    /\ \/ /\ \E t \in Threads : \E id \in ThreadIds :
                worker[t][id].at = "sleep" /\ worker[t][id].wake > now
          /\ now' = now + SleepSecs
       \/ /\ \A t \in Threads : \A id \in ThreadIds : ~Working(worker[t][id])
          /\ now + EvictAfter + SleepSecs <= MaxTime
          /\ now' = now + EvictAfter + SleepSecs
    /\ UNCHANGED <<containers_state, my_container_id, thread_vars, whole_vars>>

NextThreads ==
    \/ StartStats
    \/ EventArrives
    \/ \E t \in Threads : Evict(t) \/ Join(t)
    \/ \E t \in Threads : \E id \in ThreadIds :
          WorkerCheck(t, id) \/ WorkerTry(t, id) \/ WorkerWake(t, id) \/ WorkerRead(t, id)
    \/ SelectNext
    \/ Recheck
    \/ Fetch
    \/ Elapse

\* The stats thread and the event thread on the same cache, with no lock.
SpecThreads == Init /\ [][NextThreads]_vars

\* ------------------------------------------------------------------ claims

\* A step that is a refresh, and the cached ids its listing lacks.
RefreshStep == ~IsNone(listing')
Missing == DOMAIN containers_state \ Get(listing')
Listed == Get(listing')
Last(s) == s[Len(s)]

\* C1: a refresh never deletes an entry whose container has been continuously
\* absent from the listings for less than 60 seconds, the absence being
\* counted from the first listing of its latest run of listings without it.
C1_GraceRetention ==
    [][\A id \in removed' :
          /\ ~IsNone(absent_since[id])
          /\ now - Get(absent_since[id]) >= EvictAfter]_vars

\* C2 as stated: a refresh whose listing lacks an unmarked entry marks it with
\* the clock, and a refresh that runs 60 seconds or more after the mark
\* deletes the entry.
C2_RemovalAtSixty ==
    [][RefreshStep =>
         \A id \in Missing :
            LET mark == containers_state[id].unregistered
            IN /\ IsNone(mark) =>
                    /\ id \in DOMAIN containers_state'
                    /\ containers_state'[id].unregistered = Some(now)
               /\ (~IsNone(mark) /\ now - Get(mark) >= EvictAfter) =>
                    id \notin DOMAIN containers_state']_vars

\* C2 amended: a refresh whose listing lacks an unmarked entry marks it with
\* the clock and changes nothing else of it; a refresh that runs more than 60
\* seconds after the mark deletes the entry; one that runs 60 seconds or less
\* after the mark keeps the entry and its mark as they are.
C2_RemovalAfterSixty ==
    [][RefreshStep =>
         \A id \in Missing :
            LET entry == containers_state[id]
                mark  == entry.unregistered
            IN IF IsNone(mark)
               THEN /\ id \in DOMAIN containers_state'
                    /\ containers_state'[id] = [entry EXCEPT !.unregistered = Some(now)]
               ELSE IF now - Get(mark) > EvictAfter
               THEN id \notin DOMAIN containers_state'
               ELSE /\ id \in DOMAIN containers_state'
                    /\ containers_state'[id] = entry]_vars

\* A refresh has just deleted the entry of a container that stayed out of the
\* listings since it was marked, while another marked entry is still kept.
C2_Witness ==
    /\ ~IsNone(listing)
    /\ \E id \in removed : id \notin Get(listing)
    /\ \E id \in DOMAIN containers_state :
          /\ id \notin Get(listing)
          /\ ~IsNone(containers_state[id].unregistered)

\* C3: once an entry's key is not None, every step leaves that key as it is
\* for as long as the entry exists.
C3_KeyKept ==
    [][\A id \in DOMAIN containers_state \cap DOMAIN containers_state' :
          ~IsNone(containers_state[id].ikey) =>
              containers_state'[id].ikey = containers_state[id].ikey]_vars

\* A refresh has just listed a container whose entry has a key, while
\* run_command failed for another container of the same listing.
C3_Witness ==
    /\ ~IsNone(listing)
    /\ \E id \in Get(listing) :
          /\ ~IsNone(containers_state[id].ikey)
          /\ calls[id] = << >>
    /\ \E id \in Get(listing) :
          calls[id] # << >> /\ IsNone(Last(calls[id]).ikey)

\* C4: for a container that has no entry when a refresh reaches it, the
\* refresh makes between 1 and 5 key-discovery attempts, none after the first
\* one that returns a key, and ends with an entry whose key is the result of
\* the last attempt (None when all 5 failed).
C4_InitialRetry ==
    [][RefreshStep =>
         \A id \in Listed \ DOMAIN containers_state :
            LET c == calls'[id]
            IN /\ Len(c) >= 1 /\ Len(c) <= MaxAttempts
               /\ \A i \in 1..(Len(c) - 1) : IsNone(c[i].ikey)
               /\ Len(c) < MaxAttempts => ~IsNone(Last(c).ikey)
               /\ id \in DOMAIN containers_state'
               /\ containers_state'[id].ikey = Last(c).ikey]_vars

\* A refresh has just created one entry after 5 failed attempts and another
\* after fewer attempts, the last of which returned a key.
C4_Witness ==
    /\ \E id \in DOMAIN containers_state :
          /\ Len(calls[id]) = MaxAttempts
          /\ IsNone(containers_state[id].ikey)
    /\ \E id \in DOMAIN containers_state :
          /\ Len(calls[id]) > 1 /\ Len(calls[id]) < MaxAttempts
          /\ ~IsNone(containers_state[id].ikey)

\* C5: for a container that has an entry when a refresh reaches it, the
\* refresh makes exactly one key-discovery attempt, whose result becomes the
\* key, if the key is None and registered is within the last 60 seconds;
\* otherwise it makes no attempt and leaves the entry unchanged.
C5_GiveUp ==
    [][RefreshStep =>
         \A id \in Listed \cap DOMAIN containers_state :
            LET entry == containers_state[id]
            IN IF IsNone(entry.ikey) /\ now - entry.registered < GiveUpAfter
               THEN /\ Len(calls'[id]) = 1
                    /\ containers_state'[id] = [entry EXCEPT !.ikey = calls'[id][1].ikey]
               ELSE /\ calls'[id] = << >>
                    /\ containers_state'[id] = entry]_vars

\* A refresh has just listed an entry without a key that was registered more
\* than 60 seconds before, and made no attempt for it.
C5_Witness ==
    /\ ~IsNone(listing)
    /\ \E id \in Get(listing) :
          /\ IsNone(containers_state[id].ikey)
          /\ calls[id] = << >>
          /\ now - containers_state[id].registered > GiveUpAfter

\* C7: after a refresh, every attempt for which run_command raised
\* DockerWrapperError returned None, every listed container has an entry, and
\* the key of every container the refresh made attempts for is the result of
\* its own last attempt, whatever happened to the other containers.
C7_FailureAbsorbed ==
    ~IsNone(listing) =>
        \A id \in Get(listing) :
            /\ \A i \in 1..Len(calls[id]) :
                  calls[id][i].out = Err => IsNone(calls[id][i].ikey)
            /\ id \in DOMAIN containers_state
            /\ calls[id] # << >> => containers_state[id].ikey = Last(calls[id]).ikey

\* A refresh has just met DockerWrapperError on every attempt for one
\* container and resolved the key of another container of the same listing.
C7_Witness ==
    /\ ~IsNone(listing)
    /\ \E id \in Get(listing) :
          /\ Len(calls[id]) = MaxAttempts
          /\ \A i \in 1..MaxAttempts : calls[id][i].out = Err
          /\ IsNone(containers_state[id].ikey)
    /\ \E id \in Get(listing) :
          /\ calls[id] # << >>
          /\ ~IsNone(containers_state[id].ikey)

\* What the last stats cycle sent for container id, in order.
OfContainer(id, record) == record.properties.container = id
RECURSIVE SentFor(_, _)
SentFor(id, sent) ==
    IF sent = << >> THEN << >>
    ELSE IF OfContainer(id, Head(sent)) THEN <<Head(sent)>> \o SentFor(id, Tail(sent))
    ELSE SentFor(id, Tail(sent))

\* One record per metric of the conversion of stats, in its order.
OnePerMetric(id, stats) ==
    [i \in 1..Len(convert_to_metrics(stats)) |->
        [metric |-> convert_to_metrics(stats)[i],
         properties |-> get_container_properties(Descriptor(id), HostName)]]

\* C6: a stats cycle in which get_stats raises for some of the N selected
\* containers ends without an exception, and every container for which
\* get_stats returned gets its result handled: a failed item counts as absent
\* and the others are reported as usual.
C6_FanOutIsolation ==
    ~IsNone(stats_asked) =>
        /\ ~raised
        /\ \A id \in Get(stats_asked) :
              SentFor(id, metrics_sent) =
                  IF ~stats_got[id].raises /\ Len(stats_got[id].stats) > 1
                  THEN OnePerMetric(id, stats_got[id].stats)
                  ELSE << >>

\* C9: in a stats cycle, a container whose get_stats result has 0 or 1
\* samples gets no record sent, and one whose result has more than one sample
\* gets exactly one record per metric of the conversion, in its order.
C9_StatsFiltering ==
    ~IsNone(stats_asked) =>
        \A id \in Get(stats_asked) :
            SentFor(id, metrics_sent) =
                IF Len(stats_got[id].stats) <= 1 THEN << >>
                ELSE OnePerMetric(id, stats_got[id].stats)

\* A stats cycle has just got 1 sample for one container and 3 for another,
\* and sent the two metrics of the latter only.
C9_Witness ==
    /\ ~IsNone(stats_asked)
    /\ \E a, b \in Get(stats_asked) :
          /\ Len(stats_got[a].stats) = 1
          /\ Len(stats_got[b].stats) = 3
          /\ SentFor(a, metrics_sent) = << >>
          /\ Len(SentFor(b, metrics_sent)) = 2
          /\ Len(metrics_sent) = 2

\* C10: after a stats cycle, get_stats was called for exactly the cached
\* entries whose id is the collector's own or whose key is None, and every
\* record sent is for one of them.
C10_Selection ==
    ~IsNone(stats_asked) =>
        /\ ~IsNone(my_container_id)
        /\ Get(stats_asked) =
              {k \in DOMAIN containers_state :
                  k = Get(my_container_id) \/ IsNone(containers_state[k].ikey)}
        /\ \A i \in 1..Len(metrics_sent) :
              LET k == metrics_sent[i].properties.container
              IN k = Get(my_container_id) \/ IsNone(containers_state[k].ikey)

\* A stats cycle has just reported for the collector's own container, whose
\* key is resolved, and for no other, the other cached container having a key.
C10_Witness ==
    /\ ~IsNone(stats_asked)
    /\ DOMAIN containers_state = Ids
    /\ \A k \in Ids : ~IsNone(containers_state[k].ikey)
    /\ Get(stats_asked) = {Get(my_container_id)}
    /\ metrics_sent # << >>

\* The handled events of the stream, in order.
InList(event) == event.status \in {"start", "stop", "die", "restart", "pause", "unpause"}
HandledEvents == SelectSeq(stream, InList)

LookupStep == lookups' # lookups
LookedUp == Last(lookups')

\* C11: a call of the key lookup for an id lists the containers and refreshes
\* the cache if and only if the id has no entry when it is called; with an
\* entry it returns that entry's key and leaves the whole cache as it is;
\* after a refresh it returns the key of the id's new entry, or None when the
\* id still has no entry.
C11_RefreshOnMiss ==
    [][LookupStep =>
         IF LookedUp \in DOMAIN containers_state
         THEN /\ IsNone(listing')
              /\ containers_state' = containers_state
              /\ Last(returned') = containers_state[LookedUp].ikey
         ELSE /\ ~IsNone(listing')
              /\ Listed \subseteq DOMAIN containers_state'
              /\ Last(returned') =
                    IF LookedUp \in DOMAIN containers_state'
                    THEN containers_state'[LookedUp].ikey
                    ELSE None]_vars

\* The loop has looked up the same id twice: the first lookup refreshed the
\* cache and returned the key found, the second returned it from the cache
\* without a refresh.
C11_Witness ==
    /\ Len(lookups) = 2
    /\ lookups[1] = lookups[2]
    /\ Len(stream) = 2
    /\ IsNone(listing)
    /\ ~IsNone(returned[2])
    /\ returned[1] = returned[2]


\* C12: after a refresh, every id of its listing has an entry in the cache
\* (one, the cache being a dict keyed by id), and that entry's descriptor has
\* that id.
C12_ListedCached ==
    ~IsNone(listing) =>
        \A id \in Get(listing) :
            /\ id \in DOMAIN containers_state
            /\ containers_state[id].container.Id = id

\* A refresh has just listed every container: one had no key found in 5
\* attempts, the other was back in the listing after having been marked
\* missing; both are cached.
C12_Witness ==
    /\ listing = Some(Ids)
    /\ DOMAIN containers_state = Ids
    /\ \E id \in Ids :
          /\ Len(calls[id]) = MaxAttempts
          /\ IsNone(containers_state[id].ikey)
    /\ \E id \in Ids :
          /\ calls[id] = << >>
          /\ ~IsNone(containers_state[id].unregistered)


\* The text of s after its first '=' (s has one).
RECURSIVE AfterFirstEq(_)
AfterFirstEq(s) == IF Head(s) = "=" THEN Tail(s) ELSE AfterFirstEq(Tail(s))
HasEq(s) == \E i \in 1..Len(s) : s[i] = "="

\* C13: for an output of the cat command whose trimmed text contains '=', key
\* discovery returns the whole text after the first '='; for one whose
\* trimmed text is empty or contains no '=', and when the command fails, it
\* returns None.
C13_WholeTextAfterFirstEq ==
    ~IsNone(run_output) =>
        LET out == Get(run_output)
        IN IF out # Err /\ HasEq(Strip(out))
           THEN ikey_found = Some(AfterFirstEq(Strip(out)))
           ELSE IsNone(ikey_found)


\* The fields of a record that describe a finished container.
TerminalFields ==
    {"docker-FinishedAt", "docker-ExitCode", "docker-Error", "docker-duration-seconds",
     "docker-duration-minutes", "docker-duration-hours", "docker-duration-days"}

\* C14: a record the event loop sent has the finish time, the exit code, the
\* error text and the four duration fields if and only if its event's status
\* is stop or die; they are taken from the inspection, the error text being ''
\* when the inspection has no error, and the durations being the seconds from
\* start to finish and that number over 60, 3600 and 86400; the record's key
\* is the key the lookup returned, or '' when it returned None, never None.
C14_TerminalFields ==
    \A i \in 1..Len(events_sent) :
        LET record == events_sent[i]
            state  == inspected[i].State
            secs   == state.FinishedAt - state.StartedAt
        IN /\ IF HandledEvents[i].status \in {"stop", "die"}
              THEN /\ TerminalFields \subseteq DOMAIN record.properties
                   /\ record.properties["docker-FinishedAt"] = state.FinishedAt
                   /\ record.properties["docker-ExitCode"] = state.ExitCode
                   /\ record.properties["docker-Error"] =
                         IF IsNone(state.Error) THEN "" ELSE Get(state.Error)
                   /\ record.properties["docker-duration-seconds"] = secs
                   /\ record.properties["docker-duration-minutes"] = <<secs, 60>>
                   /\ record.properties["docker-duration-hours"] = <<secs, 3600>>
                   /\ record.properties["docker-duration-days"] = <<secs, 86400>>
              ELSE TerminalFields \cap DOMAIN record.properties = {}
           /\ ~IsNone(record.ikey)
           /\ record.ikey = IF IsNone(returned[i]) THEN Some(<< >>) ELSE returned[i]

\* The loop has sent a start record without the terminal fields and with the
\* container's key, and then a die record with them, with '' as its error
\* text and '' as its key, the inspection having no error and the lookup
\* having found no key.
C14_Witness ==
    /\ Len(events_sent) = 2
    /\ events_sent[1].name = "docker-container-start"
    /\ "docker-Error" \notin DOMAIN events_sent[1].properties
    /\ events_sent[1].ikey = Some(<<"x">>)
    /\ events_sent[2].name = "docker-container-die"
    /\ IsNone(inspected[2].State.Error)
    /\ events_sent[2].properties["docker-Error"] = ""
    /\ events_sent[2].properties["docker-duration-seconds"] = 125
    /\ IsNone(returned[2])
    /\ events_sent[2].ikey = Some(<< >>)


\* C15: after a refresh, the entry of every container of its listing has no
\* 'unregistered' mark, also when an earlier refresh had marked it missing.
C15_MarkCleared ==
    ~IsNone(listing) =>
        \A id \in Get(listing) \cap DOMAIN containers_state :
            IsNone(containers_state[id].unregistered)


\* C16: the cache that remove_old_containers returns in a refresh has no id
\* the cache did not have, and has every entry whose id is in the listing,
\* with its key, registered, unregistered and descriptor as they were.
C16_EvictionFrame ==
    [][RefreshStep =>
         LET evicted == Get(after_eviction')
         IN /\ DOMAIN evicted \subseteq DOMAIN containers_state
            /\ \A id \in Listed \cap DOMAIN containers_state :
                  /\ id \in DOMAIN evicted
                  /\ evicted[id] = containers_state[id]]_vars

\* The eviction step of a refresh has just marked the entry of a container
\* missing from the listing and left alone the entry of a listed one, whose
\* mark is more than 60 seconds old.
C16_Witness ==
    /\ ~IsNone(listing)
    /\ \E id \in DOMAIN Get(after_eviction) \ Get(listing) :
          Get(after_eviction)[id].unregistered = Some(now)
    /\ \E id \in Get(listing) \cap DOMAIN Get(after_eviction) :
          /\ calls[id] = << >>
          /\ ~IsNone(Get(after_eviction)[id].unregistered)
          /\ Get(Get(after_eviction)[id].unregistered) < now - EvictAfter


\* C17: from the step that first stores an entry for an id until a step
\* deletes it, no step changes the entry's 'registered', the steps of the
\* discovery attempts of the worker that created it included.
C17_RegisteredFixed ==
    [][\A id \in DOMAIN containers_state \cap DOMAIN containers_state' :
          containers_state'[id].registered = containers_state[id].registered]_vars

\* C18: with the two threads interleaved at will and every discovery attempt
\* free to find the key or not, no step takes the key of an entry that stays
\* in the cache from a key to None or to another key.
C18_KeyMonotonic ==
    [][\A id \in DOMAIN containers_state :
          LET ikey == containers_state[id].ikey
          IN (~IsNone(ikey) /\ id \in DOMAIN containers_state') =>
                 /\ ~IsNone(containers_state'[id].ikey)
                 /\ Get(containers_state'[id].ikey) = Get(ikey)]_vars

\* A step that inserts or deletes an entry of the cache.
Resizes == DOMAIN containers_state' # DOMAIN containers_state

\* C19: with the two threads interleaved at will, neither the key lookup nor
\* a worker reads an entry that was deleted after it tested that the entry is
\* there (the read would raise KeyError), and no step inserts or deletes an
\* entry while the stats thread's comprehension is iterating over the cache.
C19_NoEvictedAccess ==
    [][/\ \A t \in Threads :
             /\ pc'[t] # "KeyError"
             /\ \A id \in ThreadIds : worker'[t][id].at # "KeyError"
       /\ (pc["stats"] = "select" /\ Get(items).todo # {}) => ~Resizes]_vars


\* The ids the last stats cycle called get_stats for, and the ids of the
\* records it sent.
Asked == Get(stats_asked)
Reported == {metrics_sent[i].properties.container : i \in 1..Len(metrics_sent)}

\* C20 as stated: a stats cycle calls get_stats, and sends records, only for
\* containers of the listing it obtained.
C20_OnlyListed ==
    ~IsNone(stats_asked) =>
        /\ Asked \subseteq Get(listing)
        /\ Reported \subseteq Get(listing)

\* C20 amended: a stats cycle calls get_stats, and sends records, only for
\* containers that have an entry after its refresh; one that is not in the
\* cycle's listing is an entry the eviction step kept and left marked as
\* missing, and every such entry that is the collector's own or has no key is
\* sampled.
C20_OnlyCached ==
    ~IsNone(stats_asked) =>
        /\ Reported \subseteq Asked
        /\ Asked \subseteq DOMAIN containers_state
        /\ \A id \in Asked \ Get(listing) :
              /\ id \in DOMAIN Get(after_eviction)
              /\ containers_state[id] = Get(after_eviction)[id]
              /\ ~IsNone(containers_state[id].unregistered)
        /\ \A id \in DOMAIN containers_state \ Get(listing) :
              (Some(id) = my_container_id \/ IsNone(containers_state[id].ikey))
                  => id \in Asked

\* A stats cycle has just listed no container, sampled one that is cached
\* and marked missing, and sent records for it.
C20_Witness ==
    /\ ~IsNone(stats_asked)
    /\ listing = Some({})
    /\ \E id \in Asked :
          /\ ~IsNone(containers_state[id].unregistered)
          /\ id \in Reported

====
